---- MODULE Spec2Model ----
(***************************************************************************)
(* SkillBridge backend: the POST /roadmap/generate handler                 *)
(* (backend/app/api/routes/roadmap.py, generate_roadmap) as a state        *)
(* machine over the job-posting catalog and the stored roadmaps, and the    *)
(* POST /jobs/match handler (backend/app/api/routes/jobs.py, match_jobs).  *)
(* Beside them: GeminiService.generate_content under its retry decorator,  *)
(* POST /skills (create_skill) served by two workers at once, and the      *)
(* import loop of load_kaggle_jobs.                                        *)
(*                                                                         *)
(* Text is modelled as a sequence of one-character strings, so that        *)
(* str.lower, str.split, str.isdigit and SQL ILIKE are computed and not    *)
(* assumed.  The generator's response is a sequence of lexical tokens:     *)
(* "[" and "]", "x" (prose without brackets that is not JSON) and the      *)
(* names of JSON objects (StepObj), each object carrying its separating    *)
(* comma and, in its list fields, brackets of its own.                     *)
(***************************************************************************)
EXTENDS Integers, Sequences, FiniteSets, TLC

VARIABLES
    catalog,               \* job_postings rows, in insertion order
    roadmaps,              \* career_roadmaps rows, in insertion order
    pc,                    \* where the handler is
    request,               \* the RoadmapRequest being served
    tiers,                 \* the ranking queries run so far, in order
    similar_jobs,          \* rows (indices into catalog) used for gap analysis
    all_required_skills,   \* set aggregated over similar_jobs
    all_preferred_skills,  \* set aggregated over similar_jobs
    skill_gaps,            \* list
    recommended_skills,    \* list
    generations,           \* calls of GeminiService.generate_content so far
    learning_path_json,    \* the generator's response text (tokens)
    learning_path,         \* list of LearningStep
    estimated_timeline,    \* [n, unit]: the text "<n> <unit>"
    confidence_score,      \* [num, den]: the float num/den
    status,                \* HTTP status of the reply, 0 while in progress
    match_request,         \* the JobMatchRequest served by match_jobs
    match_distance,        \* the "distance" column of match_jobs' query, per row,
                           \* in thousandths
    match_results,         \* the list match_jobs returned
    match_status,          \* HTTP status of match_jobs' reply, 0 before it
    replies,               \* statuses of the generate_roadmap requests answered
    gen_pc,                \* where one call of GeminiService.generate_content is
    attempt_log,           \* outcomes of its attempts so far, in order
    gen_result,            \* what the call gave its caller
    skills_table,          \* names of the rows of the skills table, in order
    skill_pc,              \* per worker: where its create_skill request is
    skill_name,            \* per worker: SkillCreate.name of the request
    skill_status,          \* per worker: HTTP status of the reply, 0 before it
    loader_pc,             \* where load_kaggle_jobs is
    max_jobs,              \* its argument
    batch_size,            \* its argument: rows per chunk
    rows_unread,           \* rows of postings.csv not yet read into a chunk
    rows_processed,        \* rows the inner loop has taken so far
    chunk_left,            \* rows of the current chunk not yet taken
    total_loaded,
    total_skipped,
    session_new            \* JobPosting objects added and not yet committed

\* what match_jobs reads and writes besides the catalog
matchVars == <<match_request, match_distance, match_results, match_status>>

generatorVars == <<gen_pc, attempt_log, gen_result>>

skillVars == <<skills_table, skill_pc, skill_name, skill_status>>

loaderVars ==
    <<loader_pc, max_jobs, batch_size, rows_unread, rows_processed, chunk_left, total_loaded,
      total_skipped, session_new>>

\* what the handlers of generate_roadmap and match_jobs never touch
serviceVars == <<replies, generatorVars, skillVars, loaderVars>>

vars == <<catalog, roadmaps, pc, request, tiers, similar_jobs,
          all_required_skills, all_preferred_skills, skill_gaps,
          recommended_skills, generations, learning_path_json, learning_path,
          estimated_timeline, confidence_score, status, matchVars, serviceVars>>

(***************************************************************************)
(* Bounds of the model and constants of the program.                       *)
(***************************************************************************)
MaxCatalog == 2        \* rows in job_postings
MaxKnown == 2          \* entries of request.current_skills
MaxRespLen == 4        \* tokens in a generator response
MaxDist == 1           \* cosine distances are drawn from 0..MaxDist
MaxMatchCatalog == 3   \* rows in job_postings when match_jobs runs
MaxLimit == 2          \* JobMatchRequest.limit is drawn from 1..MaxLimit
MaxSteps == 3          \* steps in a generated array whose durations vary
MaxServed == 2         \* generate_roadmap requests answered one after another
MaxRows == 102         \* rows of postings.csv

TitleTierLimit == 10   \* .limit(10) of the title-filtered query
VectorTierLimit == 5   \* .limit(5) of the unfiltered query
FallbackSkillCount == 3    \* skill_gaps[:3]
WeeksCeiling == 52     \* total_duration < 52
WeeksPerMonth == 4     \* total_duration // 4
StopAfterAttempt == 3  \* stop_after_attempt(3)
CommitEvery == 100     \* total_loaded % 100 == 0

(***************************************************************************)
(* Text helpers.                                                           *)
(***************************************************************************)
None == {}
Some(v) == {v}

Min(a, b) == IF a <= b THEN a ELSE b

Take(s, n) == SubSeq(s, 1, Min(n, Len(s)))

Range(s) == {s[i] : i \in DOMAIN s}

SeqsUpTo(S, n) == UNION {[1..k -> S] : k \in 0..n}

\* all orders in which the members of a set can be listed
Listings(S) ==
    {s \in [1..Cardinality(S) -> S] : \A i, j \in DOMAIN s : i # j => s[i] # s[j]}

\* str.lower() on one character
LowerChar(c) ==
    CASE c = "A" -> "a"
      [] c = "B" -> "b"
      [] c = "I" -> "i"
      [] c = "P" -> "p"
      [] c = "Q" -> "q"
      [] OTHER -> c

\* str.lower()
Lower(s) == [i \in DOMAIN s |-> LowerChar(s[i])]

IsSpace(c) == c = " "

\* `not text or not text.strip()`
IsBlank(s) == \A i \in DOMAIN s : IsSpace(s[i])

(***************************************************************************)
(* Retrieval: the two ranking queries.                                     *)
(***************************************************************************)
\* SQL LIKE on lower-cased operands: % matches any run, _ any one character
RECURSIVE LikeMatch(_, _)
LikeMatch(pat, s) ==
    IF pat = <<>> THEN s = <<>>
    ELSE IF Head(pat) = "%"
        THEN LikeMatch(Tail(pat), s) \/ (s # <<>> /\ LikeMatch(pat, Tail(s)))
    ELSE IF s = <<>> THEN FALSE
    ELSE /\ (Head(pat) = "_" \/ LowerChar(Head(pat)) = LowerChar(Head(s)))
         /\ LikeMatch(Tail(pat), Tail(s))

\* JobPosting.title.ilike(f"%{request.target_role}%")
TitleILike(title, role) == LikeMatch(<<"%">> \o role \o <<"%">>, title)

\* rows passing the title filter
TitleFiltered(cat, role) == {i \in DOMAIN cat : TitleILike(cat[i].title, role)}

\* .order_by("distance").limit(n).all(): every order the database may return;
\* rows at equal distance come in any order
RankResults(rows, dist, limit) ==
    {Take(s, limit) : s \in {l \in Listings(rows) :
        \A i, j \in DOMAIN l : i < j => dist[l[i]] <= dist[l[j]]}}

RetrievalMerged(cat, role, dist) ==
    {[tiers |-> <<"TitleFiltered", "Unfiltered">>, similar_jobs |-> a \o b] :
        a \in RankResults(TitleFiltered(cat, role), dist, TitleTierLimit),
        b \in RankResults(DOMAIN cat, dist, VectorTierLimit)}

\* the title-filtered query, then the unfiltered one `if not similar_jobs`
Retrieval(cat, role, dist) ==
    LET first == RankResults(TitleFiltered(cat, role), dist, TitleTierLimit)
    IN  {[tiers |-> <<"TitleFiltered">>, similar_jobs |-> r] :
            r \in {x \in first : x # <<>>}}
        \cup
        (IF first = {<<>>}
         THEN {[tiers |-> <<"TitleFiltered", "Unfiltered">>, similar_jobs |-> r] :
                  r \in RankResults(DOMAIN cat, dist, VectorTierLimit)}
         ELSE {})

NoJobsFoundSkipped(similar) == FALSE

\* `if not similar_jobs: raise HTTPException(status_code=404, ...)`
NoJobsFound(similar) == similar = <<>>

(***************************************************************************)
(* Gap analysis.                                                           *)
(***************************************************************************)
AllRequiredFirstOnly(cat, similar) == Range(cat[similar[1]].required_skills)

\* the loop over similar_jobs: `if job.required_skills: all_required_skills.update(...)`
\* (a NULL column and an empty array are both skipped: both are <<>> here)
AllRequired(cat, similar) ==
    UNION {Range(cat[similar[k]].required_skills) : k \in DOMAIN similar}

AllPreferred(cat, similar) ==
    UNION {Range(cat[similar[k]].preferred_skills) : k \in DOMAIN similar}

\* str.swapcase() on one character
SwapCaseChar(c) ==
    CASE c = "a" -> "A"
      [] c = "b" -> "B"
      [] c = "i" -> "I"
      [] c = "p" -> "P"
      [] c = "q" -> "Q"
      [] OTHER -> LowerChar(c)

CurrentSkillsSetSwapCase(current_skills) ==
    {[k \in DOMAIN current_skills[i] |-> SwapCaseChar(current_skills[i][k])] :
        i \in DOMAIN current_skills}

\* set(skill.lower() for skill in request.current_skills)
CurrentSkillsSet(current_skills) == {Lower(current_skills[i]) : i \in DOMAIN current_skills}

\* [skill for skill in all_required_skills if skill.lower() not in current_skills_set]
GapSet(required, current) == {s \in required : Lower(s) \notin current}

\* all_preferred_skills - current_skills_set
RecommendedSet(preferred, current) == preferred \ current

ConfidenceScoreUnguarded(current, required) ==
    [num |-> Cardinality(current \cap required), den |-> Cardinality(required)]

ConfidenceScoreKnownCount(current, required) ==
    IF required # {}
    THEN [num |-> Cardinality(current), den |-> Cardinality(required)]
    ELSE [num |-> 0, den |-> 1]

\* len(current_skills_set & all_required_skills) / len(all_required_skills), else 0.0
ConfidenceScore(current, required) ==
    IF required # {}
    THEN [num |-> Cardinality(current \cap required), den |-> Cardinality(required)]
    ELSE [num |-> 0, den |-> 1]

\* f"${request.target_salary:,.0f}": formatting None raises TypeError
PromptRaises(req) == req.target_salary = None

(***************************************************************************)
(* Parsing the generator's response.                                       *)
(***************************************************************************)
\* "<n> weeks"
Weeks(n) == n \o <<" ", "w", "e", "e", "k", "s">>

Weeks2 == Weeks(<<"2">>)
Months12 == <<"1", "-", "2", " ", "m", "o", "n", "t", "h", "s">>

\* a step's description: fixed text, then ', '.join of skill names
Description(text, skills) == [text |-> text, skills |-> skills]

\* the JSON objects a response may contain, by token name
DurationNames == {"W3", "W10", "W22", "W30", "R", "O", "E", "B"}

ObjNames == {"S1", "S3", "M", "D"} \cup DurationNames

\* the estimated_duration of the step objects that differ only in it
DurationOf(name) ==
    CASE name = "W3" -> Weeks(<<"3">>)
      [] name = "W10" -> Weeks(<<"1", "0">>)
      [] name = "W22" -> Weeks(<<"2", "2">>)
      [] name = "W30" -> Weeks(<<"3", "0">>)
      [] name = "R" -> Weeks(<<"2", "-", "3">>)
      [] name = "O" -> <<"o", "n", "e", " ", "m", "o", "n", "t", "h">>
      [] name = "E" -> <<>>
      [] name = "B" -> <<" ">>

StepObj(name) ==
    CASE name = "S1" ->
            [step |-> 1, title |-> "Basics", description |-> Description("d", <<>>),
             estimated_duration |-> Weeks2, resources |-> <<"course">>,
             skills_gained |-> << <<"q">> >>]
      [] name = "S3" ->
            [step |-> 3, title |-> "Projects", description |-> Description("d", <<>>),
             estimated_duration |-> Weeks2, resources |-> <<"book">>,
             skills_gained |-> << <<"r">> >>]
      [] name = "M" ->     \* no "title", no "skills_gained"
            [step |-> 2, description |-> Description("d", <<>>),
             estimated_duration |-> Weeks2, resources |-> <<"course">>]
      [] name = "D" ->     \* no "resources", no "skills_gained"
            [step |-> 2, title |-> "Tools", description |-> Description("d", <<>>),
             estimated_duration |-> Weeks2]
      [] name \in DurationNames ->
            [step |-> 1, title |-> "Basics", description |-> Description("d", <<>>),
             estimated_duration |-> DurationOf(name), resources |-> <<"course">>,
             skills_gained |-> << <<"q">> >>]

\* the fields of an object whose value is written as a JSON array, "[...]"
ListFields(name) == DOMAIN StepObj(name) \cap {"resources", "skills_gained"}

\* the token's text contains a "[" (and then a "]" after it)
HasBracket(tok) == tok \in ObjNames /\ ListFields(tok) # {}

\* re.search(r'\[.*\]', text, re.DOTALL): from the first "[" that has a "]" after
\* it to the last "]", where an object's list fields hold brackets of their own.
\* [found, from, to]: the tokens where the match starts and ends
JsonMatch(text) ==
    LET closes == {j \in DOMAIN text : text[j] = "]" \/ HasBracket(text[j])}
        opens == {i \in DOMAIN text :
                     \/ HasBracket(text[i])
                     \/ text[i] = "[" /\ \E j \in closes : j > i}
    IN  IF opens = {} THEN [found |-> FALSE, from |-> 0, to |-> 0]
        ELSE [found |-> TRUE,
              from |-> CHOOSE i \in opens : \A k \in opens : i <= k,
              to |-> CHOOSE j \in closes : \A k \in closes : k <= j]

JsonError == [ok |-> FALSE, kind |-> "error", items |-> <<>>, next |-> 0]

\* the elements of an array whose "[" is before position i; a nested array is
\* the element "ARR"
RECURSIVE ParseArray(_, _)
ParseArray(toks, i) ==
    IF i > Len(toks) THEN JsonError
    ELSE IF toks[i] = "]"
        THEN [ok |-> TRUE, kind |-> "array", items |-> <<>>, next |-> i + 1]
    ELSE IF toks[i] \in ObjNames
        THEN LET r == ParseArray(toks, i + 1)
             IN  IF r.ok THEN [r EXCEPT !.items = <<toks[i]>> \o r.items] ELSE JsonError
    ELSE IF toks[i] = "["
        THEN LET inner == ParseArray(toks, i + 1)
             IN  IF ~inner.ok THEN JsonError
                 ELSE LET r == ParseArray(toks, inner.next)
                      IN  IF r.ok THEN [r EXCEPT !.items = <<"ARR">> \o r.items]
                          ELSE JsonError
    ELSE JsonError

\* json.loads of whole tokens: one value and nothing after it, else JSONDecodeError
JsonLoads(toks) ==
    IF toks = <<>> THEN JsonError
    ELSE IF toks[1] = "["
        THEN LET r == ParseArray(toks, 2)
             IN  IF r.ok /\ r.next = Len(toks) + 1 THEN r ELSE JsonError
    ELSE IF toks[1] \in ObjNames /\ Len(toks) = 1
        THEN [ok |-> TRUE, kind |-> "object", items |-> <<toks[1]>>, next |-> 2]
    ELSE JsonError

\* json.loads(json_match.group()) if json_match else json.loads(learning_path_json).
\* A match that starts or ends inside an object cuts the object: what is left is
\* JSON only when it is the one list field of that object, a list of strings
\* (elements "STR")
JsonValue(text) ==
    LET m == JsonMatch(text)
    IN  IF ~m.found THEN JsonLoads(text)
        ELSE IF text[m.from] = "[" /\ text[m.to] = "]"
            THEN JsonLoads(SubSeq(text, m.from, m.to))
        ELSE IF text[m.from] \in ObjNames /\ m.to = m.from
                    /\ Cardinality(ListFields(text[m.from])) = 1
            THEN LET f == CHOOSE x \in ListFields(text[m.from]) : TRUE
                 IN  [ok |-> TRUE, kind |-> "array",
                      items |-> [i \in DOMAIN StepObj(text[m.from])[f] |-> "STR"],
                      next |-> 0]
        ELSE JsonError

RequiredFields == {"step", "title", "description", "estimated_duration"}

\* LearningStep(**obj) for an object with every required field
LearningStep(obj) ==
    [step |-> obj.step, title |-> obj.title, description |-> obj.description,
     estimated_duration |-> obj.estimated_duration,
     resources |-> IF "resources" \in DOMAIN obj THEN obj.resources ELSE <<>>,
     skills_gained |-> IF "skills_gained" \in DOMAIN obj THEN obj.skills_gained ELSE <<>>]

\* what LearningStep(**item) raises for one element of the parsed list
ItemError(item) ==
    IF item \notin ObjNames THEN "TypeError"
    ELSE IF ~(RequiredFields \subseteq DOMAIN StepObj(item)) THEN "ValidationError"
    ELSE "none"

FallbackStepShort(gaps) ==
    [step |-> 1, title |-> "Foundation Building", description |-> Description("Start by learning the core skills: ", Take(gaps, FallbackSkillCount)),
     estimated_duration |-> Months12,
     resources |-> <<"Online courses", "Documentation", "Practice projects">>,
     skills_gained |-> Take(gaps, FallbackSkillCount - 1)]

FallbackStepTwoMonths(gaps) ==
    [step |-> 1, title |-> "Foundation Building", description |-> Description("Start by learning the core skills: ", Take(gaps, FallbackSkillCount)),
     estimated_duration |-> <<"2", " ", "m", "o", "n", "t", "h", "s">>,
     resources |-> <<"Online courses", "Documentation", "Practice projects">>,
     skills_gained |-> Take(gaps, FallbackSkillCount)]

\* the step of the `except json.JSONDecodeError` branch
FallbackStep(gaps) ==
    [step |-> 1, title |-> "Foundation Building", description |-> Description("Start by learning the core skills: ", Take(gaps, FallbackSkillCount)),
     estimated_duration |-> Months12,
     resources |-> <<"Online courses", "Documentation", "Practice projects">>,
     skills_gained |-> Take(gaps, FallbackSkillCount)]

\* the try/except around json.loads and the list comprehension:
\* [error, provenance, path]; an error other than JSONDecodeError leaves the try
ParseLearningPath(text, gaps) ==
    LET v == JsonValue(text)
    IN  IF ~v.ok
        THEN [error |-> "none", provenance |-> "Fallback", path |-> <<FallbackStep(gaps)>>]
        ELSE IF v.kind = "object"
            \* iterating a dict yields its keys: LearningStep(**"step") is a TypeError
            THEN IF DOMAIN StepObj(v.items[1]) = {}
                 THEN [error |-> "none", provenance |-> "Synthesized", path |-> <<>>]
                 ELSE [error |-> "TypeError", provenance |-> "Failed", path |-> <<>>]
        ELSE LET bad == {i \in DOMAIN v.items : ItemError(v.items[i]) # "none"}
             IN  IF bad # {}
                 THEN [error |-> ItemError(v.items[CHOOSE i \in bad : \A k \in bad : i <= k]),
                       provenance |-> "Failed", path |-> <<>>]
                 ELSE [error |-> "none", provenance |-> "Synthesized",
                       path |-> [i \in DOMAIN v.items |-> LearningStep(StepObj(v.items[i]))]]

(***************************************************************************)
(* Timeline.                                                               *)
(***************************************************************************)
Digits == {"0", "1", "2", "3", "4", "5", "6", "7", "8", "9"}

DigitVal(c) ==
    CASE c = "0" -> 0 [] c = "1" -> 1 [] c = "2" -> 2 [] c = "3" -> 3 [] c = "4" -> 4
      [] c = "5" -> 5 [] c = "6" -> 6 [] c = "7" -> 7 [] c = "8" -> 8 [] c = "9" -> 9

\* s.split()[0]; <<>> when split() is empty (the subscript raises IndexError)
FirstWord(s) ==
    LET ink == {i \in DOMAIN s : ~IsSpace(s[i])}
    IN  IF ink = {} THEN <<>>
        ELSE LET a == CHOOSE i \in ink : \A k \in ink : i <= k
                 ends == {i \in ink : i >= a /\ (i = Len(s) \/ IsSpace(s[i + 1]))}
                 b == CHOOSE i \in ends : \A k \in ends : i <= k
             IN  SubSeq(s, a, b)

\* str.isdigit()
IsDigitStr(w) == w # <<>> /\ \A i \in DOMAIN w : w[i] \in Digits

\* int(w) for a string of digits
RECURSIVE ToInt(_)
ToInt(w) == IF w = <<>> THEN 0 ELSE 10 * ToInt(SubSeq(w, 1, Len(w) - 1)) + DigitVal(w[Len(w)])

\* some step's estimated_duration.split() is empty
TimelineRaises(path) == \E i \in DOMAIN path : FirstWord(path[i].estimated_duration) = <<>>

\* sum([int(d.split()[0]) for step in learning_path if d.split()[0].isdigit()])
RECURSIVE TotalDuration(_)
TotalDuration(path) ==
    IF path = <<>> THEN 0
    ELSE LET w == FirstWord(Head(path).estimated_duration)
         IN  (IF IsDigitStr(w) THEN ToInt(w) ELSE 0) + TotalDuration(Tail(path))

EstimatedTimelineInclusive(total) ==
    IF total <= WeeksCeiling THEN [n |-> total, unit |-> "weeks"]
    ELSE [n |-> total \div WeeksPerMonth, unit |-> "months"]

\* f"{total} weeks" if total < 52 else f"{total // 4} months"
EstimatedTimeline(total) ==
    IF total < WeeksCeiling THEN [n |-> total, unit |-> "weeks"]
    ELSE [n |-> total \div WeeksPerMonth, unit |-> "months"]

(***************************************************************************)
(* The inputs the model draws from.                                        *)
(***************************************************************************)
Job(title, required, preferred) ==
    [title |-> title, required_skills |-> required, preferred_skills |-> preferred]

TitleAi == <<"A", "i">>
TitleBe == <<"B", "e">>

\* postings whose skill names differ in case and surrounding whitespace, and
\* one with no required skills and an empty preferred name
SkillJobs ==
    {Job(TitleAi, << <<"P">> >>, << <<"P">> >>),
     Job(TitleBe, << <<"q">>, <<" ", "p">> >>, << <<"q">> >>),
     Job(TitleAi, <<>>, << <<>> >>)}

\* postings that leave gaps of zero to four skills
PathJobs ==
    {Job(TitleAi, << <<"q">>, <<"r">>, <<"s">>, <<"t">> >>, << <<"A">> >>),
     Job(TitleAi, << <<"P">> >>, <<>>)}

SkillCatalogs == SeqsUpTo(SkillJobs, MaxCatalog)
PathCatalogs == {<<>>} \cup {<<j>> : j \in PathJobs}
OptionCatalogs == {<<>>} \cup {<<j>> : j \in SkillJobs}

KnownNames == {<<"p">>, <<"P">>, <<" ", "p">>, <<"q">>}

\* RoadmapRequest: current_skills has min_items=1; salary and experience are Optional
Requests(knowns, roles, salaries, years) ==
    [current_skills : knowns, target_role : roles,
     target_salary : salaries, experience_years : years]

SkillRequests ==
    Requests(SeqsUpTo(KnownNames, MaxKnown) \ {<<>>},
             {<<"a", "i">>, <<"a", "_">>, <<"z">>},
             {Some(90000)}, {Some(3)})

PathRequests ==
    Requests({<<<<"p">>>>, <<<<"q">>, <<"r">>>>},
             {<<"a", "i">>},
             {None, Some(90000)}, {Some(3)})

OptionRequests ==
    Requests({<<<<"p">>>>, <<<<"q">>, <<" ", "p">>>>},
             {<<"a", "i">>, <<"z">>, <<" ">>, <<>>},
             {None, Some(90000)}, {None, Some(3)})

ResponseTokens == {"[", "]", "x", "S1", "S3", "M"}

\* a response is never empty: generate_content raises on an empty response
PathResponses == SeqsUpTo(ResponseTokens, MaxRespLen) \ {<<>>}

SkillResponses == {<<"x">>, <<"[", "S1", "]">>, <<"[", "D", "]">>, <<"D">>}

\* arrays of complete steps with every kind of estimated_duration, and prose
TimelineResponses ==
    {<<"x">>} \cup
    {<<"[">> \o body \o <<"]">> :
        body \in SeqsUpTo(DurationNames \cup {"S1"}, MaxSteps) \ {<<>>}}

TimelineCatalogs == {<<>>, <<Job(TitleAi, << <<"q">>, <<"P">> >>, <<>>)>>}

TimelineRequests ==
    Requests({<< <<"p">> >>, << <<"z">> >>}, {<<"a", "i">>}, {Some(90000)}, {Some(3)})

NoRequest ==
    [current_skills |-> <<>>, target_role |-> <<>>,
     target_salary |-> None, experience_years |-> None]

NoMatchRequest ==
    [skills |-> <<>>, limit |-> 0, min_salary |-> None,
     experience_level |-> None, remote_type |-> None]

\* generate_content has given its caller nothing yet
NoResult == [kind |-> "none", text |-> <<>>]

\* the server processes that serve create_skill requests at the same time
Workers == {1, 2}

NoTimeline == [n |-> 0, unit |-> ""]
NoScore == [num |-> 0, den |-> 1]

(***************************************************************************)
(* The handler.                                                            *)
(***************************************************************************)
InitWith(catalogs) ==
    /\ catalog \in catalogs
    /\ roadmaps = <<>>
    /\ pc = "Idle"
    /\ request = NoRequest
    /\ tiers = <<>>
    /\ similar_jobs = <<>>
    /\ all_required_skills = {}
    /\ all_preferred_skills = {}
    /\ skill_gaps = <<>>
    /\ recommended_skills = <<>>
    /\ generations = 0
    /\ learning_path_json = <<>>
    /\ learning_path = <<>>
    /\ estimated_timeline = NoTimeline
    /\ confidence_score = NoScore
    /\ status = 0
    /\ match_request = NoMatchRequest
    /\ match_distance = <<>>
    /\ match_results = <<>>
    /\ match_status = 0
    /\ replies = <<>>
    /\ gen_pc = "Idle"
    /\ attempt_log = <<>>
    /\ gen_result = NoResult
    /\ skills_table = <<>>
    /\ skill_pc = [w \in Workers |-> "Idle"]
    /\ skill_name = [w \in Workers |-> <<>>]
    /\ skill_status = [w \in Workers |-> 0]
    /\ loader_pc = "Idle"
    /\ max_jobs = 0
    /\ batch_size = 0
    /\ rows_unread = 0
    /\ rows_processed = 0
    /\ chunk_left = 0
    /\ total_loaded = 0
    /\ total_skipped = 0
    /\ session_new = 0

\* `except HTTPException: raise` / `except Exception: raise HTTPException(500)`
Fail(code) ==
    /\ pc' = "Failed"
    /\ status' = code

\* a POST /generate arrives
Request(requests) ==
    /\ UNCHANGED <<matchVars, serviceVars>>
    /\ pc = "Idle"
    /\ \E r \in requests : request' = r
    /\ pc' = "Retrieving"
    /\ UNCHANGED <<catalog, roadmaps, tiers, similar_jobs, all_required_skills,
                   all_preferred_skills, skill_gaps, recommended_skills, generations,
                   learning_path_json, learning_path, estimated_timeline,
                   confidence_score, status>>

\* steps 1 to 4: embed the role, rank, aggregate the skills, take the differences
RetrieveAndComputeGap ==
    /\ UNCHANGED <<matchVars, serviceVars>>
    /\ pc = "Retrieving"
    /\ IF IsBlank(request.target_role)
       THEN \* generate_embedding raises ValueError("Text cannot be empty")
            /\ Fail(500)
            /\ UNCHANGED <<tiers, similar_jobs, all_required_skills,
                           all_preferred_skills, skill_gaps, recommended_skills>>
       ELSE \E dist \in [DOMAIN catalog -> 0..MaxDist] :
            \E found \in Retrieval(catalog, request.target_role, dist) :
               /\ tiers' = found.tiers
               /\ similar_jobs' = found.similar_jobs
               /\ IF NoJobsFound(found.similar_jobs)
                  THEN /\ Fail(404)
                       /\ UNCHANGED <<all_required_skills, all_preferred_skills,
                                      skill_gaps, recommended_skills>>
                  ELSE LET required == AllRequired(catalog, found.similar_jobs)
                           preferred == AllPreferred(catalog, found.similar_jobs)
                           current == CurrentSkillsSet(request.current_skills)
                       IN  /\ all_required_skills' = required
                           /\ all_preferred_skills' = preferred
                           \* a Python set is iterated in no specified order
                           /\ skill_gaps' \in Listings(GapSet(required, current))
                           /\ recommended_skills' \in
                                  Listings(RecommendedSet(preferred, current))
                           /\ pc' = "GapComputed"
                           /\ status' = 0
    /\ UNCHANGED <<catalog, roadmaps, request, generations, learning_path_json,
                   learning_path, estimated_timeline, confidence_score>>

IssueGenerationAgain ==
    /\ UNCHANGED <<matchVars, serviceVars>>
    /\ pc \in {"GapComputed", "Fallback"}
    /\ generations < 2
    /\ generations' = generations + 1
    /\ pc' = "AwaitingGeneration"
    /\ status' = 0
    /\ UNCHANGED <<catalog, roadmaps, request, tiers, similar_jobs,
                   all_required_skills, all_preferred_skills, skill_gaps,
                   recommended_skills, learning_path_json, learning_path,
                   estimated_timeline, confidence_score>>

\* step 5: build the prompt and call GeminiService.generate_content
IssueGeneration ==
    /\ UNCHANGED <<matchVars, serviceVars>>
    /\ pc = "GapComputed"
    /\ IF PromptRaises(request)
       THEN Fail(500) /\ UNCHANGED generations
       ELSE /\ generations' = generations + 1
            /\ pc' = "AwaitingGeneration"
            /\ status' = 0
    /\ UNCHANGED <<catalog, roadmaps, request, tiers, similar_jobs,
                   all_required_skills, all_preferred_skills, skill_gaps,
                   recommended_skills, learning_path_json, learning_path,
                   estimated_timeline, confidence_score>>

\* generate_content returns its text
GeneratorReturns(responses) ==
    /\ UNCHANGED <<matchVars, serviceVars>>
    /\ pc = "AwaitingGeneration"
    /\ \E text \in responses : learning_path_json' = text
    /\ pc' = "Parsing"
    /\ UNCHANGED <<catalog, roadmaps, request, tiers, similar_jobs,
                   all_required_skills, all_preferred_skills, skill_gaps,
                   recommended_skills, generations, learning_path,
                   estimated_timeline, confidence_score, status>>

\* generate_content raises (API error, timeout or empty response, after its
\* retries): the await is outside the inner try, so the outer handler replies 500
GeneratorRaises ==
    /\ UNCHANGED <<matchVars, serviceVars>>
    /\ pc = "AwaitingGeneration"
    /\ Fail(500)
    /\ UNCHANGED <<catalog, roadmaps, request, tiers, similar_jobs,
                   all_required_skills, all_preferred_skills, skill_gaps,
                   recommended_skills, generations, learning_path_json,
                   learning_path, estimated_timeline, confidence_score>>

\* the CareerRoadmap row of step 6
RoadmapRow(id, path, timeline, score) ==
    [id |-> id, current_skills |-> request.current_skills,
     target_role |-> request.target_role, target_salary |-> request.target_salary,
     skill_gaps |-> skill_gaps, recommended_skills |-> recommended_skills,
     learning_path |-> path, estimated_timeline |-> timeline,
     confidence_score |-> score]

ParseAndFinishStoreFirst ==
    /\ UNCHANGED <<matchVars, serviceVars>>
    /\ pc = "Parsing"
    /\ LET parsed == ParseLearningPath(learning_path_json, skill_gaps)
           timeline == EstimatedTimeline(TotalDuration(parsed.path))
           score == ConfidenceScore(CurrentSkillsSet(request.current_skills),
                                    all_required_skills)
       IN  /\ roadmaps' = Append(roadmaps,
                  RoadmapRow(Len(roadmaps) + 1, parsed.path, timeline, score))
           /\ IF parsed.error # "none" \/ TimelineRaises(parsed.path)
              THEN /\ Fail(500)
                   /\ UNCHANGED <<learning_path, estimated_timeline, confidence_score>>
              ELSE /\ learning_path' = parsed.path
                   /\ estimated_timeline' = timeline
                   /\ confidence_score' = score
                   /\ pc' = parsed.provenance
                   /\ status' = 200
    /\ UNCHANGED <<catalog, request, tiers, similar_jobs, all_required_skills,
                   all_preferred_skills, skill_gaps, recommended_skills,
                   generations, learning_path_json>>

\* parse the response, then timeline, confidence score, commit and reply
ParseAndFinish ==
    /\ UNCHANGED <<matchVars, serviceVars>>
    /\ pc = "Parsing"
    /\ LET parsed == ParseLearningPath(learning_path_json, skill_gaps)
           timeline == EstimatedTimeline(TotalDuration(parsed.path))
           score == ConfidenceScore(CurrentSkillsSet(request.current_skills),
                                    all_required_skills)
       IN  IF parsed.error # "none" \/ TimelineRaises(parsed.path)
           THEN /\ Fail(500)
                /\ UNCHANGED <<roadmaps, learning_path, estimated_timeline,
                               confidence_score>>
           ELSE /\ learning_path' = parsed.path
                /\ estimated_timeline' = timeline
                /\ confidence_score' = score
                /\ roadmaps' = Append(roadmaps,
                       RoadmapRow(Len(roadmaps) + 1, parsed.path, timeline, score))
                /\ pc' = parsed.provenance
                /\ status' = 200
    /\ UNCHANGED <<catalog, request, tiers, similar_jobs, all_required_skills,
                   all_preferred_skills, skill_gaps, recommended_skills,
                   generations, learning_path_json>>

(***************************************************************************)
(* POST /jobs/match (backend/app/api/routes/jobs.py, match_jobs).          *)
(***************************************************************************)
\* a job_postings row with the columns match_jobs filters on; a NULL column
\* is None
MatchJob(salary_min, experience_level, remote_type, required) ==
    [title |-> TitleAi, required_skills |-> required, preferred_skills |-> <<>>,
     salary_min |-> salary_min, experience_level |-> experience_level,
     remote_type |-> remote_type]

MatchJobPool ==
    {MatchJob(Some(100), Some("senior"), Some("remote"), << <<"P">>, <<"q">> >>),
     MatchJob(Some(50), Some("junior"), Some("onsite"), << <<"q">> >>),
     MatchJob(None, None, None, <<>>)}

MatchCatalogs == SeqsUpTo(MatchJobPool, MaxMatchCatalog)

\* JobMatchRequest: skills has min_items=1, limit is validated to 1..50
MatchRequests ==
    [skills : {<< <<"p">> >>, << <<" ">> >>},
     limit : 1..MaxLimit,
     min_salary : {None, Some(0), Some(80)},
     experience_level : {None, Some(""), Some("senior")},
     remote_type : {None, Some("remote")}]

\* ", ".join(request.skills)
RECURSIVE JoinSkills(_)
JoinSkills(skills) ==
    IF skills = <<>> THEN <<>>
    ELSE IF Len(skills) = 1 THEN skills[1]
    ELSE skills[1] \o <<",", " ">> \o JoinSkills(Tail(skills))

\* `if request.min_salary:`, `if request.experience_level:`: None, 0 and ""
\* are falsy
TruthyNumber(opt) == opt # None /\ opt # Some(0)

TruthyText(opt) == opt # None /\ opt # Some("")

\* the filters added to the query; a comparison with a NULL column is not true
PassesFilters(job, req) ==
    /\ TruthyNumber(req.min_salary) =>
          \E v \in job.salary_min : \E m \in req.min_salary : v >= m
    /\ TruthyText(req.experience_level) => job.experience_level = req.experience_level
    /\ TruthyText(req.remote_type) => job.remote_type = req.remote_type

MatchFiltered(cat, req) == {i \in DOMAIN cat : PassesFilters(cat[i], req)}

MatchRankedFilterLast(cat, req, dist) ==
    {SelectSeq(r, LAMBDA i : PassesFilters(cat[i], req)) :
        r \in RankResults(DOMAIN cat, dist, req.limit)}

\* query.order_by("distance").limit(request.limit).all()
MatchRanked(cat, req, dist) == RankResults(MatchFiltered(cat, req), dist, req.limit)

\* set(skill.lower() for skill in request.skills)
UserSkillsSet(skills) == {Lower(skills[i]) : i \in DOMAIN skills}

\* required_skills_set - user_skills_set, both lower-cased
MissingSkills(job, skills) ==
    {Lower(s) : s \in Range(job.required_skills)} \ UserSkillsSet(skills)

\* list(...) of each result's missing set, in any order
MissingListings(cat, req, ranked) ==
    LET opts(k) == Listings(MissingSkills(cat[ranked[k]], req.skills))
    IN  {f \in [DOMAIN ranked -> UNION {opts(k) : k \in DOMAIN ranked}] :
            \A k \in DOMAIN ranked : f[k] \in opts(k)}

\* round(1 - distance, 3), in thousandths
MatchScore(distance) == 1000 - distance

JobMatchResult(id, job, distance, missing) ==
    [job_id |-> id, title |-> job.title, salary_min |-> job.salary_min,
     required_skills |-> job.required_skills,
     match_score |-> MatchScore(distance), missing_skills |-> missing]

\* what generate_roadmap reads and writes besides the catalog
roadmapVars ==
    <<roadmaps, pc, request, tiers, similar_jobs, all_required_skills,
      all_preferred_skills, skill_gaps, recommended_skills, generations,
      learning_path_json, learning_path, estimated_timeline, confidence_score,
      status>>

MatchJobsPruning(requests) ==
    /\ match_status = 0
    /\ \E req \in requests :
        /\ match_request' = req
        /\ catalog' = SelectSeq(catalog, LAMBDA job : PassesFilters(job, req))
        /\ match_distance' = <<>>
        /\ match_results' = <<>>
        /\ match_status' = 200
    /\ UNCHANGED <<roadmapVars, serviceVars>>

\* the handler, from the request to its reply
MatchJobs(requests) ==
    /\ match_status = 0
    /\ \E req \in requests :
        /\ match_request' = req
        /\ IF IsBlank(JoinSkills(req.skills))
           THEN \* generate_embedding raises ValueError: `except Exception` replies 500
                /\ match_distance' = <<>>
                /\ match_results' = <<>>
                /\ match_status' = 500
           ELSE \E dist \in [DOMAIN catalog -> 0..MaxDist] :
                \E ranked \in MatchRanked(catalog, req, dist) :
                \E missing \in MissingListings(catalog, req, ranked) :
                    /\ match_distance' = dist
                    /\ match_results' =
                          [k \in DOMAIN ranked |->
                              JobMatchResult(ranked[k], catalog[ranked[k]],
                                             dist[ranked[k]], missing[k])]
                    /\ match_status' = 200
    /\ UNCHANGED <<catalog, roadmapVars, serviceVars>>

(***************************************************************************)
(* Requests one after another, and next to match_jobs.                     *)
(***************************************************************************)
\* the handler has returned or raised: the reply is sent, its locals are gone
\* and the next request can be taken
Reply ==
    /\ pc \in {"Synthesized", "Fallback", "Failed"}
    /\ Len(replies) < MaxServed
    /\ replies' = Append(replies, status)
    /\ pc' = "Idle"
    /\ request' = NoRequest
    /\ tiers' = <<>>
    /\ similar_jobs' = <<>>
    /\ all_required_skills' = {}
    /\ all_preferred_skills' = {}
    /\ skill_gaps' = <<>>
    /\ recommended_skills' = <<>>
    /\ generations' = 0
    /\ learning_path_json' = <<>>
    /\ learning_path' = <<>>
    /\ estimated_timeline' = NoTimeline
    /\ confidence_score' = NoScore
    /\ status' = 0
    /\ UNCHANGED <<catalog, roadmaps, matchVars, generatorVars, skillVars, loaderVars>>

\* match_jobs has replied: the next match request can be taken
MatchReply ==
    /\ match_status # 0
    /\ match_request' = NoMatchRequest
    /\ match_distance' = <<>>
    /\ match_results' = <<>>
    /\ match_status' = 0
    /\ UNCHANGED <<catalog, roadmapVars, serviceVars>>

ServeCatalogs ==
    {<<>>,
     <<MatchJob(Some(100), Some("senior"), Some("remote"), << <<"P">>, <<"q">> >>)>>,
     <<MatchJob(Some(50), Some("junior"), Some("onsite"), << <<"q">> >>),
       MatchJob(None, None, None, <<>>)>>}

ServeRequests ==
    Requests({<< <<"p">> >>}, {<<"a", "i">>}, {None, Some(90000)}, {Some(3)})

ServeResponses == {<<"x">>, <<"[", "S1", "]">>, <<"[", "M", "]">>}

ServeMatchRequests ==
    [skills : {<< <<"p">> >>, << <<" ">> >>},
     limit : {1},
     min_salary : {None, Some(80)},
     experience_level : {None},
     remote_type : {None}]

(***************************************************************************)
(* GeminiService.generate_content                                          *)
(* (backend/app/services/gemini_service.py) under its tenacity decorator.  *)
(***************************************************************************)
\* what one call of self.model.generate_content gives: a response with text,
\* possibly empty, or an exception
AttemptOutcomes ==
    {[kind |-> "text", text |-> t] : t \in {<<>>, <<"x">>, <<"[", "S1", "]">>}}
    \cup {[kind |-> k, text |-> <<>>] : k \in {"APIError", "Timeout", "RateLimited"}}

AttemptErrorEmptyAccepted(outcome) ==
    IF outcome.kind = "text" THEN "none" ELSE outcome.kind

\* what the body raises for the outcome, "none" when it returns response.text:
\* `if response.text: return response.text else: raise ValueError(...)`
AttemptError(outcome) ==
    IF outcome.kind = "text"
    THEN (IF outcome.text # <<>> THEN "none" ELSE "ValueError")
    ELSE outcome.kind

\* a caller awaits generate_content(prompt)
GenerateContentCalled ==
    /\ gen_pc = "Idle"
    /\ gen_pc' = "Attempting"
    /\ UNCHANGED <<attempt_log, gen_result>>
    /\ UNCHANGED <<catalog, roadmapVars, matchVars, replies, skillVars, loaderVars>>

\* one run of the body; @retry(stop=stop_after_attempt(3), reraise=True)
\* decides what follows a raising one
GenerateContentAttempt(outcomes) ==
    /\ gen_pc = "Attempting"
    /\ \E outcome \in outcomes :
        /\ attempt_log' = Append(attempt_log, outcome)
        /\ IF AttemptError(outcome) = "none"
           THEN /\ gen_pc' = "Returned"
                /\ gen_result' = [kind |-> "text", text |-> outcome.text]
           ELSE IF Len(attempt_log) + 1 >= StopAfterAttempt
           THEN /\ gen_pc' = "Raised"
                /\ gen_result' = [kind |-> AttemptError(outcome), text |-> <<>>]
           ELSE /\ gen_pc' = "Waiting"
                /\ UNCHANGED gen_result
    /\ UNCHANGED <<catalog, roadmapVars, matchVars, replies, skillVars, loaderVars>>

\* wait_exponential(...) is over: the body runs again
GenerateContentRetry ==
    /\ gen_pc = "Waiting"
    /\ gen_pc' = "Attempting"
    /\ UNCHANGED <<attempt_log, gen_result>>
    /\ UNCHANGED <<catalog, roadmapVars, matchVars, replies, skillVars, loaderVars>>

(***************************************************************************)
(* POST /skills (backend/app/api/routes/skills.py, create_skill), served   *)
(* by Workers at the same time on one skills table whose name column is    *)
(* unique.                                                                 *)
(***************************************************************************)
SkillNames == {<<"p">>, <<"P">>, <<"q">>, <<" ">>}

UniqueViolationNever(name, table) == FALSE

\* name = Column(String, unique=True): the INSERT of a name that is stored
\* raises IntegrityError
UniqueViolation(name, table) == name \in Range(table)

\* the request up to db.add: the existence check, then the embedding
CreateSkillCheck(w, names) ==
    /\ skill_pc[w] = "Idle"
    /\ \E name \in names :
        /\ skill_name' = [skill_name EXCEPT ![w] = name]
        /\ IF name \in Range(skills_table)
           THEN \* HTTPException(status_code=400, detail="Skill already exists")
                /\ skill_pc' = [skill_pc EXCEPT ![w] = "Done"]
                /\ skill_status' = [skill_status EXCEPT ![w] = 400]
           ELSE IF IsBlank(name)
           THEN \* generate_embedding raises ValueError: an unhandled exception
                /\ skill_pc' = [skill_pc EXCEPT ![w] = "Done"]
                /\ skill_status' = [skill_status EXCEPT ![w] = 500]
           ELSE /\ skill_pc' = [skill_pc EXCEPT ![w] = "Inserting"]
                /\ UNCHANGED skill_status
    /\ UNCHANGED <<skills_table, catalog, roadmapVars, matchVars, replies,
                   generatorVars, loaderVars>>

\* db.commit(): the INSERT reaches the table, or the unique index refuses it
CreateSkillCommit(w) ==
    /\ skill_pc[w] = "Inserting"
    /\ IF UniqueViolation(skill_name[w], skills_table)
       THEN /\ skill_status' = [skill_status EXCEPT ![w] = 500]
            /\ UNCHANGED skills_table
       ELSE /\ skills_table' = Append(skills_table, skill_name[w])
            /\ skill_status' = [skill_status EXCEPT ![w] = 200]
    /\ skill_pc' = [skill_pc EXCEPT ![w] = "Done"]
    /\ UNCHANGED <<skill_name, catalog, roadmapVars, matchVars, replies,
                   generatorVars, loaderVars>>

\* the reply is sent: the worker can take its next request
CreateSkillReply(w) ==
    /\ skill_pc[w] = "Done"
    /\ skill_pc' = [skill_pc EXCEPT ![w] = "Idle"]
    /\ skill_name' = [skill_name EXCEPT ![w] = <<>>]
    /\ skill_status' = [skill_status EXCEPT ![w] = 0]
    /\ UNCHANGED <<skills_table, catalog, roadmapVars, matchVars, replies,
                   generatorVars, loaderVars>>

(***************************************************************************)
(* load_kaggle_jobs (backend/load_kaggle_data.py).                         *)
(***************************************************************************)
\* max_jobs, chunksize and the number of rows of the file
LoaderMaxJobs == {1, CommitEvery, CommitEvery + 1}

LoaderBatchSizes == {50, 1000}

LoaderFiles == {0, 3, MaxRows}

\* a row: valid, without title or description, or one whose handling raises
\* before db.add (generate_embedding, a bad field)
RowKinds == {"valid", "missing", "raises"}

\* the row a valid line of the file becomes
LoadedJob == Job(TitleAi, <<>>, <<>>)

\* n rows of the session reach the table
Committed(n) == catalog \o [i \in 1..n |-> LoadedJob]

\* the import is started on a file that exists
LoaderStart ==
    /\ loader_pc = "Idle"
    /\ max_jobs' \in LoaderMaxJobs
    /\ batch_size' \in LoaderBatchSizes
    /\ rows_unread' \in LoaderFiles
    /\ loader_pc' = "NextChunk"
    /\ UNCHANGED <<rows_processed, chunk_left, total_loaded, total_skipped, session_new>>
    /\ UNCHANGED <<catalog, roadmapVars, matchVars, replies, generatorVars, skillVars>>

\* `for chunk_num, chunk in enumerate(chunk_iterator, 1)`: the next chunk is
\* read, then `if total_loaded >= max_jobs: break`
LoaderReadChunk ==
    /\ loader_pc = "NextChunk"
    /\ IF rows_unread = 0
       THEN /\ loader_pc' = "Complete"
            /\ UNCHANGED <<rows_unread, chunk_left>>
       ELSE /\ rows_unread' = rows_unread - Min(batch_size, rows_unread)
            /\ IF total_loaded >= max_jobs
               THEN loader_pc' = "Complete" /\ UNCHANGED chunk_left
               ELSE /\ chunk_left' = Min(batch_size, rows_unread)
                    /\ loader_pc' = "InChunk"
    /\ UNCHANGED <<max_jobs, batch_size, rows_processed, total_loaded,
                   total_skipped, session_new>>
    /\ UNCHANGED <<catalog, roadmapVars, matchVars, replies, generatorVars, skillVars>>

\* one turn of the inner loop, with its try/except
LoaderProcessRow ==
    /\ loader_pc = "InChunk"
    /\ rows_processed' = rows_processed + 1
    /\ chunk_left' = chunk_left - 1
    /\ \E kind \in RowKinds : \E commit_ok \in BOOLEAN :
        IF kind # "valid"
        THEN \* `total_skipped += 1; continue`, directly or in the except
             /\ total_skipped' = total_skipped + 1
             /\ loader_pc' = IF chunk_left = 1 THEN "ChunkEnd" ELSE "InChunk"
             /\ UNCHANGED <<total_loaded, session_new, catalog>>
        ELSE \* db.add(job); total_loaded += 1
             /\ total_loaded' = total_loaded + 1
             /\ IF (total_loaded + 1) % CommitEvery = 0
                THEN IF commit_ok
                     THEN /\ catalog' = Committed(session_new + 1)
                          /\ session_new' = 0
                          /\ UNCHANGED total_skipped
                          /\ loader_pc' =
                                IF total_loaded + 1 >= max_jobs \/ chunk_left = 1
                                THEN "ChunkEnd" ELSE "InChunk"
                     ELSE \* db.commit() raises: `except Exception` counts the
                          \* row as skipped and continues; what is left in the
                          \* session depends on where the commit failed
                          /\ total_skipped' = total_skipped + 1
                          /\ session_new' \in {0, session_new + 1}
                          /\ loader_pc' = IF chunk_left = 1 THEN "ChunkEnd" ELSE "InChunk"
                          /\ UNCHANGED catalog
                ELSE /\ commit_ok
                     /\ session_new' = session_new + 1
                     /\ UNCHANGED <<total_skipped, catalog>>
                     /\ loader_pc' =
                           IF total_loaded + 1 >= max_jobs \/ chunk_left = 1
                           THEN "ChunkEnd" ELSE "InChunk"
    /\ UNCHANGED <<max_jobs, batch_size, rows_unread>>
    /\ UNCHANGED <<roadmapVars, matchVars, replies, generatorVars, skillVars>>

\* after the inner loop: db.commit(), then `if total_loaded >= max_jobs: break`;
\* a commit that raises here reaches the outer except: rollback and raise
LoaderEndOfChunk ==
    /\ loader_pc = "ChunkEnd"
    /\ \E commit_ok \in BOOLEAN :
        IF commit_ok
        THEN /\ catalog' = Committed(session_new)
             /\ session_new' = 0
             /\ loader_pc' = IF total_loaded >= max_jobs THEN "Complete" ELSE "NextChunk"
        ELSE /\ session_new' = 0
             /\ loader_pc' = "Raised"
             /\ UNCHANGED catalog
    /\ UNCHANGED <<max_jobs, batch_size, rows_unread, rows_processed, chunk_left,
                   total_loaded, total_skipped>>
    /\ UNCHANGED <<roadmapVars, matchVars, replies, generatorVars, skillVars>>

(***************************************************************************)
(* Specifications.  Spec exercises the response parser on every token      *)
(* sequence up to MaxRespLen; SpecSkills exercises retrieval and the skill *)
(* algebra on every catalog and known-skill list up to the bounds;         *)
(* SpecOptions exercises the optional and blank fields of the request.     *)
(* SpecTimeline exercises the durations of the steps; SpecServe answers    *)
(* roadmap requests one after another next to match requests; SpecMatch,   *)
(* SpecGenerator, SpecCreateSkill and SpecLoader each run one of the other *)
(* operations.                                                             *)
(***************************************************************************)
Init == InitWith(PathCatalogs)

Next ==
    \/ Request(PathRequests)
    \/ RetrieveAndComputeGap
    \/ IssueGeneration
    \/ GeneratorReturns(PathResponses)
    \/ GeneratorRaises
    \/ ParseAndFinish

Spec == Init /\ [][Next]_vars

InitSkills == InitWith(SkillCatalogs)

NextSkills ==
    \/ Request(SkillRequests)
    \/ RetrieveAndComputeGap
    \/ IssueGeneration
    \/ GeneratorReturns(SkillResponses)
    \/ GeneratorRaises
    \/ ParseAndFinish

SpecSkills == InitSkills /\ [][NextSkills]_vars

InitOptions == InitWith(OptionCatalogs)

NextOptions ==
    \/ Request(OptionRequests)
    \/ RetrieveAndComputeGap
    \/ IssueGeneration
    \/ GeneratorReturns(SkillResponses)
    \/ GeneratorRaises
    \/ ParseAndFinish

SpecOptions == InitOptions /\ [][NextOptions]_vars

InitTimeline == InitWith(TimelineCatalogs)

NextTimeline ==
    \/ Request(TimelineRequests)
    \/ RetrieveAndComputeGap
    \/ IssueGeneration
    \/ GeneratorReturns(TimelineResponses)
    \/ GeneratorRaises
    \/ ParseAndFinish

SpecTimeline == InitTimeline /\ [][NextTimeline]_vars

InitServe == InitWith(ServeCatalogs)

NextServe ==
    \/ Request(ServeRequests)
    \/ RetrieveAndComputeGap
    \/ IssueGeneration
    \/ GeneratorReturns(ServeResponses)
    \/ GeneratorRaises
    \/ ParseAndFinish
    \/ Reply
    \/ MatchJobs(ServeMatchRequests)
    \/ MatchReply

SpecServe == InitServe /\ [][NextServe]_vars

InitGenerator == InitWith({<<>>})

NextGenerator ==
    \/ GenerateContentCalled
    \/ GenerateContentAttempt(AttemptOutcomes)
    \/ GenerateContentRetry

SpecGenerator == InitGenerator /\ [][NextGenerator]_vars

InitCreateSkill == InitWith({<<>>})

NextCreateSkill ==
    \E w \in Workers :
        \/ CreateSkillCheck(w, SkillNames)
        \/ CreateSkillCommit(w)
        \/ CreateSkillReply(w)

SpecCreateSkill == InitCreateSkill /\ [][NextCreateSkill]_vars

InitLoader == InitWith({<<>>})

NextLoader ==
    \/ LoaderStart
    \/ LoaderReadChunk
    \/ LoaderProcessRow
    \/ LoaderEndOfChunk

SpecLoader == InitLoader /\ [][NextLoader]_vars

InitMatch == InitWith(MatchCatalogs)

NextMatch == MatchJobs(MatchRequests)

SpecMatch == InitMatch /\ [][NextMatch]_vars

(***************************************************************************)
(* Properties.                                                             *)
(***************************************************************************)
Terminal == pc \in {"Synthesized", "Fallback", "Failed"}

\* the generator was called and raised instead of returning text
GeneratorFailed == generations > 0 /\ learning_path_json = <<>> /\ Terminal

\* the generator returned text and the handler has dealt with it
Parsed == learning_path_json # <<>> /\ Terminal

\* the value json.loads gave for the response, if any
ParsedValue == JsonValue(learning_path_json)

\* the specification's normalisation: trim, lower-case, drop the empty name
RECURSIVE TrimLeft(_)
TrimLeft(s) == IF s # <<>> /\ IsSpace(Head(s)) THEN TrimLeft(Tail(s)) ELSE s

RECURSIVE TrimRight(_)
TrimRight(s) ==
    IF s # <<>> /\ IsSpace(s[Len(s)]) THEN TrimRight(SubSeq(s, 1, Len(s) - 1)) ELSE s

Normalized(names) == {Lower(TrimRight(TrimLeft(n))) : n \in names} \ {<<>>}

\* C1: when the generator call fails for a request whose retrieval found an
\* entry, the request ends in Fallback with a Roadmap (status 200, at least
\* the fallback step) and not with a failure.
C1_GeneratorFailureFallsBack ==
    (GeneratorFailed /\ similar_jobs # <<>>)
        => (pc = "Fallback" /\ status = 200 /\ learning_path # <<>>)

AllStepFields ==
    {"step", "title", "description", "estimated_duration", "resources", "skills_gained"}

\* the parsed value is not an array of objects that each have every field
Malformed(v) ==
    \/ v.kind # "array"
    \/ \E i \in DOMAIN v.items :
          \/ v.items[i] \notin ObjNames
          \/ ~(AllStepFields \subseteq DOMAIN StepObj(v.items[i]))

\* C2: a response that is JSON but has a step object lacking a LearningStep
\* field, or is not an array of step objects, ends in Fallback with exactly
\* the fallback step: no failure and no partially filled step.
C2_MalformedStepsFallBack ==
    (Parsed /\ ParsedValue.ok /\ Malformed(ParsedValue))
        => (pc = "Fallback" /\ status = 200
            /\ learning_path = <<FallbackStep(skill_gaps)>>)

\* C3: every Roadmap returned, Synthesized or Fallback, has at least one step.
C3_RoadmapHasAStep == status = 200 => Len(learning_path) >= 1

\* C4: after a successful parse the i-th step of learning_path has step
\* number i, whatever "step" the generator wrote.
C4_StepsRenumbered ==
    pc = "Synthesized" => \A i \in DOMAIN learning_path : learning_path[i].step = i

OmitsOptional(req) == req.target_salary = None \/ req.experience_years = None

\* C5: a request with known skills and a role that omits the salary and/or
\* the years of experience, and whose retrieval found an entry, is not failed:
\* in particular it is not failed before the generator has been called.
C5_OptionalFieldsMayBeOmitted ==
    (similar_jobs # <<>> /\ OmitsOptional(request) /\ pc = "Failed") => generations > 0

\* C6: when the text handed to json.loads is not JSON, the reply is exactly
\* one step: number 1, "Foundation Building", "1-2 months", with the first 3
\* skill gaps (all of them when there are fewer) in the same order.
C6_FallbackStepFromFirstThreeGaps ==
    (Parsed /\ ~ParsedValue.ok) =>
        /\ pc = "Fallback"
        /\ status = 200
        /\ Len(learning_path) = 1
        /\ learning_path[1].step = 1
        /\ learning_path[1].title = "Foundation Building"
        /\ learning_path[1].estimated_duration = Months12
        /\ learning_path[1].skills_gained =
              [i \in 1..(IF Len(skill_gaps) < 3 THEN Len(skill_gaps) ELSE 3) |-> skill_gaps[i]]

\* C6 witness: unparseable text with more than three skill gaps
C6_Witness ==
    Parsed /\ ~ParsedValue.ok /\ Len(skill_gaps) > 3 /\ pc = "Fallback"

\* the title contains the role as a case-insensitive substring
ContainsIgnoringCase(title, role) ==
    \E k \in 1..(Len(title) - Len(role) + 1) :
        SubSeq(Lower(title), k, k + Len(role) - 1) = Lower(role)

Retrieved == tiers # <<>>

C8_NotFoundIffBothTiersEmpty ==
    /\ (status = 404) <=> (Len(tiers) = 2 /\ similar_jobs = <<>>)
    /\ Retrieved => ((similar_jobs = <<>>) <=> (catalog = <<>>))
    /\ status = 404 => (generations = 0 /\ pc = "Failed" /\ roadmaps = <<>>)

\* C8 witness: a 404 reply
C8_Witness == status = 404 /\ catalog = <<>> /\ generations = 0

GapComputed == pc \notin {"Idle", "Retrieving"} /\ similar_jobs # <<>>

\* C9: the skill gap is normalized(required) minus normalized(known): it is
\* disjoint from normalized(known) and, with the known required skills, makes
\* up normalized(required).
C9_GapIsNormalizedDifference ==
    GapComputed =>
        LET gap == Normalized(Range(skill_gaps))
            required == Normalized(all_required_skills)
            known == Normalized(Range(request.current_skills))
        IN  /\ gap \cap known = {}
            /\ gap \cup (required \cap known) = required

\* C10: the confidence score is 1.0 when the required set is not empty and
\* every required skill is known after normalising both sides.
C10_AllKnownScoresOne ==
    (status = 200 /\ all_required_skills # {}
       /\ Normalized(all_required_skills) \subseteq Normalized(Range(request.current_skills)))
        => confidence_score.num = confidence_score.den

\* C11: the recommended skills are normalized(preferred) minus
\* normalized(known): none of them equals a known skill after normalising
\* both, and with the known preferred skills they make up normalized(preferred).
C11_RecommendedIsNormalizedDifference ==
    GapComputed =>
        LET recommended == Normalized(Range(recommended_skills))
            preferred == Normalized(all_preferred_skills)
            known == Normalized(Range(request.current_skills))
        IN  /\ recommended \cap known = {}
            /\ recommended \cup (preferred \cap known) = preferred

\* the response parsed into steps whose durations can be summed
StepsUsable ==
    LET parsed == ParseLearningPath(learning_path_json, skill_gaps)
    IN  parsed.error = "none" /\ ~TimelineRaises(parsed.path)

\* C12: when no retrieved entry has a required skill, the score is exactly
\* 0.0 and computing it does not fail the request: a request whose response
\* was parsed into usable steps is answered with that score.
C12_NoRequiredScoresZero ==
    (Parsed /\ similar_jobs # <<>> /\ all_required_skills = {} /\ StepsUsable)
        => /\ status = 200
           /\ confidence_score = [num |-> 0, den |-> 1]
           /\ roadmaps[Len(roadmaps)].confidence_score = [num |-> 0, den |-> 1]

\* C12 witness: a Roadmap returned for entries without required skills
C12_Witness ==
    /\ status = 200
    /\ similar_jobs # <<>>
    /\ all_required_skills = {}
    /\ all_preferred_skills # {}
    /\ confidence_score.num = 0

\* C13: the confidence score of every stored Roadmap is between 0 and 1.
C13_ScoreInUnitInterval ==
    \A k \in DOMAIN roadmaps :
        LET score == roadmaps[k].confidence_score
        IN  score.den > 0 /\ 0 <= score.num /\ score.num <= score.den

\* C13 witness: a stored score strictly between 0 and 1, for a request with
\* two known skills
C13_Witness ==
    \E k \in DOMAIN roadmaps :
        /\ 0 < roadmaps[k].confidence_score.num
        /\ roadmaps[k].confidence_score.num < roadmaps[k].confidence_score.den
        /\ Len(roadmaps[k].current_skills) = 2

\* the steps the response was parsed into, before the timeline is computed
ParsedSteps == ParseLearningPath(learning_path_json, skill_gaps)

\* C14: a step whose estimated_duration does not start with an integer token,
\* an empty or whitespace-only one included, adds 0 to the sum and never
\* fails the aggregation: once the steps are parsed the request is answered
\* with the timeline of the sum of the leading integers of the other steps.
C14_NonIntegerDurationsCountZero ==
    (Parsed /\ ParsedSteps.error = "none")
        => /\ status = 200
           /\ estimated_timeline = EstimatedTimeline(TotalDuration(ParsedSteps.path))

\* C15: the timeline is "<sum> weeks" for a sum below 52 and
\* "<sum // 4> months" from 52 on.
C15_WeeksBelow52ElseMonths ==
    status = 200 =>
        LET sum == TotalDuration(learning_path)
        IN  /\ sum < 52 => estimated_timeline = [n |-> sum, unit |-> "weeks"]
            /\ sum >= 52 => estimated_timeline = [n |-> sum \div 4, unit |-> "months"]
            /\ sum = 15 => estimated_timeline = [n |-> 15, unit |-> "weeks"]
            /\ sum = 52 => estimated_timeline = [n |-> 13, unit |-> "months"]
            /\ sum = 60 => estimated_timeline = [n |-> 15, unit |-> "months"]

\* C15 witness: durations that sum to exactly 52
C15_Witness ==
    /\ status = 200
    /\ Len(learning_path) = 2
    /\ TotalDuration(learning_path) = 52
    /\ estimated_timeline = [n |-> 13, unit |-> "months"]

\* the entry satisfies every filter the request supplies; a filter left out,
\* and one given as 0 or as the empty text, is not supplied
Satisfies(job, req) ==
    /\ \A m \in req.min_salary : m # 0 => \E v \in job.salary_min : v >= m
    /\ \A l \in req.experience_level : l # "" => job.experience_level = {l}
    /\ \A t \in req.remote_type : t # "" => job.remote_type = {t}

Passing == {i \in DOMAIN catalog : Satisfies(catalog[i], match_request)}

MatchedIds == [k \in DOMAIN match_results |-> match_results[k].job_id]

C17_NormalizationIdempotent ==
    GapComputed =>
        LET once == CurrentSkillsSet(request.current_skills)
        IN  /\ \A again \in Listings(once) : CurrentSkillsSet(again) = once
            /\ \A s \in all_required_skills : Lower(Lower(s)) = Lower(s)

\* C17 witness: a request with two known skills that normalisation changes
C17_Witness ==
    /\ GapComputed
    /\ Len(request.current_skills) = 2
    /\ Cardinality(CurrentSkillsSet(request.current_skills)) = 2
    /\ \E i \in DOMAIN request.current_skills :
          Lower(request.current_skills[i]) # request.current_skills[i]

\* the name as the specification compares it: trimmed and lower-cased
NormalForm(n) == Lower(TrimRight(TrimLeft(n)))

\* C18: names are trimmed and lower-cased before they are compared, and an
\* empty or whitespace-only name is dropped: no gap or recommended skill has
\* the normal form of a known skill, and none is empty or blank, nor is any
\* skill of a fallback step.
C18_TrimmedLoweredEmptyDropped ==
    GapComputed =>
        LET known == {NormalForm(request.current_skills[i]) :
                         i \in DOMAIN request.current_skills}
        IN  /\ \A i \in DOMAIN skill_gaps :
                  ~IsBlank(skill_gaps[i]) /\ NormalForm(skill_gaps[i]) \notin known
            /\ \A i \in DOMAIN recommended_skills :
                  /\ ~IsBlank(recommended_skills[i])
                  /\ NormalForm(recommended_skills[i]) \notin known
            /\ pc = "Fallback" =>
                  \A i \in DOMAIN learning_path[1].skills_gained :
                      ~IsBlank(learning_path[1].skills_gained[i])

\* the characters of the skill names, in code-point order
CharOrder == <<" ", "A", "P", "a", "p", "q", "r", "s", "t", "z">>

Ord(c) == CHOOSE i \in DOMAIN CharOrder : CharOrder[i] = c

RECURSIVE LexLeq(_, _)
LexLeq(a, b) ==
    IF a = <<>> THEN TRUE
    ELSE IF b = <<>> THEN FALSE
    ELSE \/ Ord(Head(a)) < Ord(Head(b))
         \/ Head(a) = Head(b) /\ LexLeq(Tail(a), Tail(b))

SortedByNormalForm(names) ==
    \A i, j \in DOMAIN names :
        i < j => LexLeq(NormalForm(names[i]), NormalForm(names[j]))

\* C19: the skill gap and the recommended skills are listed in lexicographic
\* order of their normal forms, so the lists, the gap skills sent to the
\* generator and the skills of the fallback step are the same on every run.
C19_GapAndRecommendedSorted ==
    GapComputed =>
        /\ SortedByNormalForm(skill_gaps)
        /\ SortedByNormalForm(recommended_skills)
        /\ pc = "Fallback" => SortedByNormalForm(learning_path[1].skills_gained)

\* "[" minus "]" among the tokens i..j of the text
Depth(text, i, j) ==
    Cardinality({k \in i..j : text[k] = "["}) - Cardinality({k \in i..j : text[k] = "]"})

\* the tokens i..j are a balanced "[...]"
Balanced(text, i, j) ==
    /\ text[i] = "["
    /\ text[j] = "]"
    /\ Depth(text, i, j) = 0
    /\ \A m \in i..(j - 1) : Depth(text, i, m) > 0

BalancedSpans(text) ==
    {ij \in (DOMAIN text) \X (DOMAIN text) : ij[1] < ij[2] /\ Balanced(text, ij[1], ij[2])}

\* the balanced span that starts at the first "[" of the text, when no
\* object with brackets of its own comes before it; <<>> when there is none
FirstBalancedSpan(text) ==
    LET spans == BalancedSpans(text)
        first == CHOOSE ij \in spans : \A other \in spans : ij[1] <= other[1]
    IN  IF spans = {} \/ \E k \in 1..(first[1] - 1) : text[k] = "[" \/ HasBracket(text[k])
        THEN <<>>
        ELSE SubSeq(text, first[1], first[2])

NoBracket(text) == \A k \in DOMAIN text : text[k] # "[" /\ text[k] # "]" /\ ~HasBracket(text[k])

\* the reply equals the one for the given text parsed on its own
RepliedAsFor(text) ==
    LET expected == ParseLearningPath(text, skill_gaps)
    IN  IF expected.error # "none" THEN pc = "Failed"
        ELSE pc = expected.provenance /\ learning_path = expected.path

\* C20: the handler parses the first balanced "[...]" span of the response,
\* whatever text with brackets comes after it, and parses the whole response
\* only when it has no bracketed span.
C20_FirstBalancedSpanParsed ==
    Parsed =>
        /\ FirstBalancedSpan(learning_path_json) # <<>>
              => RepliedAsFor(FirstBalancedSpan(learning_path_json))
        /\ NoBracket(learning_path_json) => RepliedAsFor(learning_path_json)

\* the state that follows p in a request that goes on
FollowingState(p) ==
    CASE p = "Idle" -> {"Retrieving"}
      [] p = "Retrieving" -> {"GapComputed"}
      [] p = "GapComputed" -> {"AwaitingGeneration"}
      [] p = "AwaitingGeneration" -> {"Parsing"}
      [] p = "Parsing" -> {"Synthesized", "Fallback"}
      [] OTHER -> {}

\* C21: a request goes through Retrieving, GapComputed, AwaitingGeneration
\* and Parsing in this order and ends in exactly one of Synthesized and
\* Fallback, unless it is failed on the way; the one generation request is
\* issued from GapComputed, with at least one retrieved entry, and no other
\* is issued afterwards, in particular not after a parse failure.
C21_StatesInOrderOneGeneration ==
    [][/\ pc' # pc =>
            \/ pc' \in FollowingState(pc)
            \/ pc' = "Failed" /\ FollowingState(pc) # {} /\ pc # "Idle"
       /\ generations' # generations =>
            /\ generations = 0
            /\ generations' = 1
            /\ pc = "GapComputed"
            /\ pc' = "AwaitingGeneration"
            /\ similar_jobs # <<>>
            /\ tiers # <<>>
       /\ pc' \in {"AwaitingGeneration", "Parsing", "Synthesized", "Fallback"}
            => generations' = 1]_vars

\* C21 witness: a request that ended in Fallback after its one generation
C21_Witness ==
    /\ pc = "Fallback"
    /\ generations = 1
    /\ ~ParsedValue.ok

\* the ids of the returned entries are in catalog insertion order wherever
\* the distances are equal, also against the entries cut off by `limit`
TiesInInsertionOrder ==
    /\ \A k, l \in DOMAIN MatchedIds :
          (k < l /\ match_distance[MatchedIds[k]] = match_distance[MatchedIds[l]])
              => MatchedIds[k] < MatchedIds[l]
    /\ \A i \in Passing \ Range(MatchedIds) : \A k \in DOMAIN MatchedIds :
          match_distance[i] = match_distance[MatchedIds[k]] => MatchedIds[k] < i

\* C23: ranking is stable: entries at equal distance come in catalog
\* insertion order, also at the truncation boundary, so the same catalog and
\* query always give the same entries in the same order.
C23_RankingStable == match_status = 200 => TiesInInsertionOrder

\* C24: the required and the preferred skills are the union of the lists of
\* all retrieved entries (an entry without a list adds nothing), and every
\* required name that is not known is in the gap exactly once.
C24_UnionOverRetrievedEntries ==
    GapComputed =>
        /\ all_required_skills =
              {s \in UNION {Range(catalog[i].required_skills) : i \in DOMAIN catalog} :
                  \E k \in DOMAIN similar_jobs :
                      s \in Range(catalog[similar_jobs[k]].required_skills)}
        /\ all_preferred_skills =
              {s \in UNION {Range(catalog[i].preferred_skills) : i \in DOMAIN catalog} :
                  \E k \in DOMAIN similar_jobs :
                      s \in Range(catalog[similar_jobs[k]].preferred_skills)}
        /\ \A s \in all_required_skills :
              Lower(s) \notin {Lower(request.current_skills[i]) :
                                  i \in DOMAIN request.current_skills}
                  => Cardinality({i \in DOMAIN skill_gaps : skill_gaps[i] = s}) = 1
        /\ Range(skill_gaps) \subseteq all_required_skills

\* C24 witness: two retrieved entries with different, non-empty lists and a
\* gap of two skills
C24_Witness ==
    /\ GapComputed
    /\ Len(similar_jobs) = 2
    /\ catalog[similar_jobs[1]].required_skills # catalog[similar_jobs[2]].required_skills
    /\ catalog[similar_jobs[1]].required_skills # <<>>
    /\ catalog[similar_jobs[2]].required_skills # <<>>
    /\ Len(skill_gaps) = 2

\* C27: with a required set that is not empty, the skill gap of a Roadmap is
\* empty exactly when its confidence score is 1.0.
C27_EmptyGapIffScoreOne ==
    (status = 200 /\ all_required_skills # {})
        => ((skill_gaps = <<>>) <=> (confidence_score.num = confidence_score.den))

\* C28: a Roadmap of the Fallback path has the timeline "0 weeks".
C28_FallbackTimelineZeroWeeks ==
    pc = "Fallback" =>
        /\ estimated_timeline = [n |-> 0, unit |-> "weeks"]
        /\ roadmaps[Len(roadmaps)].estimated_timeline = [n |-> 0, unit |-> "weeks"]

\* C28 witness: a stored Roadmap whose only step is the fallback step
C28_Witness ==
    /\ pc = "Fallback"
    /\ status = 200
    /\ roadmaps # <<>>
    /\ roadmaps[Len(roadmaps)].learning_path = <<FallbackStep(skill_gaps)>>

\* an attempt that did not give a non-empty text
FailedAttempt(outcome) == outcome.kind # "text" \/ outcome.text = <<>>

\* C22: generate_content makes at most three attempts; it returns the text of
\* the first attempt with a non-empty response; an empty response is a failed
\* attempt (ValueError); after the third failed attempt in a row it raises
\* that attempt's error.
C22_AtMostThreeAttempts ==
    LET n == Len(attempt_log)
    IN  /\ n <= 3
        /\ gen_pc \in {"Attempting", "Waiting"} =>
              n < 3 /\ \A i \in 1..n : FailedAttempt(attempt_log[i])
        /\ gen_pc = "Returned" =>
              /\ n >= 1
              /\ \A i \in 1..(n - 1) : FailedAttempt(attempt_log[i])
              /\ ~FailedAttempt(attempt_log[n])
              /\ gen_result = [kind |-> "text", text |-> attempt_log[n].text]
        /\ gen_pc = "Raised" =>
              /\ n = 3
              /\ \A i \in 1..n : FailedAttempt(attempt_log[i])
              /\ gen_result.kind =
                    (IF attempt_log[3].kind = "text" THEN "ValueError"
                     ELSE attempt_log[3].kind)

\* C22 witness: two errors, then an empty third response, raised as ValueError
C22_Witness ==
    /\ gen_pc = "Raised"
    /\ Len(attempt_log) = 3
    /\ attempt_log[1].kind = "APIError"
    /\ attempt_log[3] = [kind |-> "text", text |-> <<>>]
    /\ gen_result.kind = "ValueError"

\* C25: no step of generate_roadmap or match_jobs, in any sequence or
\* interleaving of requests that succeed or fail, changes the catalog.
C25_CatalogNeverChanged == [][catalog' = catalog]_vars

\* C25 witness: two roadmap requests answered, one with a Roadmap and one
\* with a failure, and a match request answered meanwhile
C25_Witness ==
    /\ Len(replies) = 2
    /\ 200 \in Range(replies)
    /\ 500 \in Range(replies)
    /\ match_status = 200
    /\ match_results # <<>>
    /\ catalog # <<>>

\* requests answered with a Roadmap so far, the one being answered included
ReturnedSuccessfully ==
    Cardinality({i \in DOMAIN replies : replies[i] = 200})
        + (IF status = 200 THEN 1 ELSE 0)

\* C26: a request stores one CareerRoadmap when it returns a Roadmap and none
\* when it fails: the stored roadmaps are as many as the requests that
\* returned successfully.
C26_OneRoadmapPerSuccess == Len(roadmaps) = ReturnedSuccessfully

\* C26 witness: a success, then a failure after retrieval, one roadmap stored
C26_Witness ==
    /\ Len(replies) = 2
    /\ replies[1] = 200
    /\ replies[2] = 500
    /\ Len(roadmaps) = 1

\* C29: no two stored skills have the same name; a request answered 400 or
\* failed leaves the table as it was; a stored skill is the new name of a
\* request answered 200; of two requests at the same time for one new name at
\* most one stores it and the other fails.
C29_SkillNamesUnique ==
    /\ [](\A i, j \in DOMAIN skills_table :
             skills_table[i] = skills_table[j] => i = j)
    /\ [](\A v, w \in Workers :
             (v # w /\ skill_name[v] = skill_name[w]
                /\ skill_pc[v] = "Done" /\ skill_pc[w] = "Done")
                 => ~(skill_status[v] = 200 /\ skill_status[w] = 200))
    /\ [][/\ \A w \in Workers :
                (skill_status'[w] \in {400, 500} /\ skill_status[w] = 0)
                    => skills_table' = skills_table
          /\ skills_table' # skills_table =>
                \E w \in Workers :
                    /\ skill_name[w] \notin Range(skills_table)
                    /\ skills_table' = Append(skills_table, skill_name[w])
                    /\ skill_status'[w] = 200]_vars

\* C29 witness: both workers passed the existence check for the same new
\* name; one stored it and the other failed
C29_Witness ==
    \E v, w \in Workers :
        /\ v # w
        /\ skill_name[v] = skill_name[w]
        /\ skill_status[v] = 200
        /\ skill_status[w] = 500
        /\ ~IsBlank(skill_name[w])
        /\ Cardinality({i \in DOMAIN skills_table : skills_table[i] = skill_name[v]}) = 1

\* C30: the count of loaded jobs never exceeds max_jobs; once it has reached
\* max_jobs no further row is taken; every row taken is counted once, as
\* loaded or as skipped, also when the periodic commit raises.
C30_LoadedBoundedRowsCountedOnce ==
    loader_pc # "Idle" =>
        /\ total_loaded <= max_jobs
        /\ total_loaded >= max_jobs => loader_pc \in {"ChunkEnd", "Complete", "Raised"}
        /\ total_loaded + total_skipped = rows_processed

====
